---- MODULE Spec2Model ----
(***************************************************************************)
(* One relay session of the VLESS-over-WebSocket relay, in its two         *)
(* variants:                                                               *)
(*   "callback"  src/apps/deno-vless/src/main.ts  (raw socket callbacks)   *)
(*   "pipe"      src/unnamed/part_000             (stream pipes, promise)  *)
(* The vless-js library (processVlessHeader, base64ToArrayBuffer,          *)
(* closeWebSocket, makeReadableWebSocketStream) is imported by both files  *)
(* and is modelled from the specification (sections 4.1, 4.2, 4.3).        *)
(***************************************************************************)
EXTENDS Integers, Sequences, FiniteSets, TLC

\* ------------------------------------------------------------------ bounds
\* inbound WebSocket frames delivered to one session
MaxFrames == 3
\* Deno.connect calls in one session
MaxDials == 2
\* "callback": chunks read from the TCP connections of one session
MaxChunks == 2
\* "pipe": chunks read from the TCP connection of one session (Spec); past 20
\* the throttle starts to delay
MaxCountedChunks == 21
\* chunks read from the TCP connection in specification ThrottleSpec
MaxThrottleChunks == 505
\* inbound frames delivered to each of two sessions (SessionsSpec)
MaxSessionFrames == 2
\* chunks read from the TCP connections of each of two sessions (SessionsSpec)
MaxSessionChunks == 1

\* ------------------------------------------------- identifiers and start-up
fallbackUUID == "6c131438-da48-459f-a236-9a45374e9a45"

operatorUUID == "11111111-2222-4333-8444-555555555555"

\* values of the UUID environment variable: unset, malformed, well formed
EnvValues == {"", "not-a-uuid", operatorUUID}

\* uuid.validate: only a canonical identifier string passes
UuidValidate(s) == s \in {fallbackUUID, operatorUUID}

\* let userID = Deno.env.get('UUID') || ''; if (!validate(userID)) userID = fallbackUUID
InitUserID(env) == IF UuidValidate(env) THEN env ELSE fallbackUUID

\* the 16 bytes a canonical identifier string stands for
UuidBytes(u) ==
  IF u = fallbackUUID
  THEN <<108, 19, 20, 56, 218, 72, 69, 159, 162, 54, 154, 69, 55, 78, 154, 69>>
  ELSE IF u = operatorUUID
  THEN <<17, 17, 17, 17, 34, 34, 67, 51, 132, 68, 85, 85, 85, 85, 85, 85>>
  ELSE <<>>

\* a request URL is a sequence of path/query tokens
Urls == { <<"/">>, <<"/", operatorUUID>>, <<"/", "ws", fallbackUUID>> }

\* /([a-f0-9]{8}-[a-f0-9]{4}-[a-f0-9]{4}-[a-f0-9]{4}-[a-f0-9]{12})/i
UuidShaped(tok) == tok \in {fallbackUUID, operatorUUID}

\* getVlessUUID: the first identifier-shaped part of the URL, else the default
getVlessUUID(u) ==
  IF \E i \in 1..Len(u) : UuidShaped(u[i])
  THEN u[CHOOSE i \in 1..Len(u) :
             UuidShaped(u[i]) /\ \A j \in 1..(i-1) : ~UuidShaped(u[j])]
  ELSE "6c131438-da48-459f-a236-9a45374e9a45"

\* ------------------------------------------------------------ Header Codec
NoHeader ==
  [hasError |-> TRUE, message |-> "", portRemote |-> 0, addressRemote |-> <<>>,
   rawDataIndex |-> 0, vlessVersion |-> <<>>, isUDP |-> FALSE]

HeaderError(msg) == [NoHeader EXCEPT !.message = msg]

\* length in bytes of the address value that starts at 0-based offset i
AddressLength(buf, atyp, i) ==
  CASE atyp = 1 -> 4
    [] atyp = 2 -> IF Len(buf) >= i + 1 THEN 1 + buf[i + 1] ELSE 1
    [] atyp = 3 -> 16
    [] OTHER -> 0

\* the decoded host: the address type with the bytes of the address value
AddressValue(buf, atyp, i) ==
  CASE atyp = 1 -> <<"ipv4", SubSeq(buf, i + 1, i + 4)>>
    [] atyp = 2 -> <<"domain", SubSeq(buf, i + 2, i + 1 + buf[i + 1])>>
    [] atyp = 3 -> <<"ipv6", SubSeq(buf, i + 1, i + 16)>>
    [] OTHER -> <<>>

\* processVlessHeader(vlessBuffer, userID); offsets are 0-based as in the code
processVlessHeader(buf, uid) ==
  IF Len(buf) < 24 THEN HeaderError("TooShort")
  ELSE IF SubSeq(buf, 2, 17) # UuidBytes(uid) THEN HeaderError("IdentifierMismatch")
  ELSE
    LET optLength == buf[18]
        cmdIndex  == 18 + optLength
    IN IF Len(buf) < cmdIndex + 4 THEN HeaderError("Malformed")
       ELSE
         LET command   == buf[cmdIndex + 1]
             portIndex == cmdIndex + 1
             port      == buf[portIndex + 1] * 256 + buf[portIndex + 2]
             atypIndex == portIndex + 2
             atyp      == buf[atypIndex + 1]
             addrIndex == atypIndex + 1
             addrLen   == AddressLength(buf, atyp, addrIndex)
         IN IF command \notin {1, 2} THEN HeaderError("UnsupportedCommand")
            ELSE IF atyp \notin {1, 2, 3} THEN HeaderError("UnsupportedAddressType")
            ELSE IF Len(buf) < addrIndex + addrLen THEN HeaderError("Malformed")
            ELSE IF atyp = 2 /\ addrLen = 1 THEN HeaderError("Malformed")
            ELSE [hasError |-> FALSE, message |-> "",
                  portRemote |-> port,
                  addressRemote |-> AddressValue(buf, atyp, addrIndex),
                  rawDataIndex |-> addrIndex + addrLen,
                  vlessVersion |-> <<buf[1]>>,
                  isUDP |-> (command = 2)]

\* hasError || !portRemote || !addressRemote || !rawDataIndex || !vlessVersion
HeaderRejected(h) ==
  h.hasError \/ h.portRemote = 0 \/ h.addressRemote = <<>> \/ h.rawDataIndex = 0

\* vlessBuffer.slice(rawDataIndex)
RawClientData(buf, h) == SubSeq(buf, h.rawDataIndex + 1, Len(buf))

\* ------------------------------------------------------ Early-Data Decoder
B64Alphabet ==
  <<"A","B","C","D","E","F","G","H","I","J","K","L","M","N","O","P",
    "Q","R","S","T","U","V","W","X","Y","Z","a","b","c","d","e","f",
    "g","h","i","j","k","l","m","n","o","p","q","r","s","t","u","v",
    "w","x","y","z","0","1","2","3","4","5","6","7","8","9","+","/">>

\* base64Str.replace(/-/g, '+').replace(/_/g, '/')
B64Standard(c) == IF c = "-" THEN "+" ELSE IF c = "_" THEN "/" ELSE c

B64Known(c) == \E i \in 1..64 : B64Alphabet[i] = B64Standard(c)

B64Value(c) == (CHOOSE i \in 1..64 : B64Alphabet[i] = B64Standard(c)) - 1

RECURSIVE B64StripPadding(_)
B64StripPadding(s) ==
  IF s # <<>> /\ s[Len(s)] = "=" THEN B64StripPadding(SubSeq(s, 1, Len(s) - 1)) ELSE s

RECURSIVE B64Bytes(_)
B64Bytes(s) ==
  IF Len(s) < 2 THEN <<>>
  ELSE
    LET a == B64Value(s[1])
        b == B64Value(s[2])
        c == IF Len(s) >= 3 THEN B64Value(s[3]) ELSE 0
        d == IF Len(s) >= 4 THEN B64Value(s[4]) ELSE 0
        n == ((a * 64 + b) * 64 + c) * 64 + d
        three == <<n \div 65536, (n \div 256) % 256, n % 256>>
    IN IF Len(s) >= 4 THEN three \o B64Bytes(SubSeq(s, 5, Len(s)))
       ELSE SubSeq(three, 1, Len(s) - 1)

\* base64ToArrayBuffer: {earlyData, error}
base64ToArrayBuffer(str) ==
  LET s == B64StripPadding(str)
  IN IF str = <<>> THEN [earlyData |-> <<>>, error |-> FALSE]
     ELSE IF (\E i \in 1..Len(s) : ~B64Known(s[i])) \/ Len(s) % 4 = 1 \/ Len(str) - Len(s) > 2
     THEN [earlyData |-> <<>>, error |-> TRUE]
     ELSE [earlyData |-> B64Bytes(s), error |-> FALSE]

\* values of the sec-websocket-protocol request header
EarlyDataHeaders == { <<>>, <<"A","Q","-","_">>, <<"A","Q","!","D">> }

\* ----------------------------------------------------------------- frames
\* the bytes of a header as a client lays them out
EncodeHeader(ver, uid, cmd, port, atyp, addr, raw) ==
  <<ver>> \o UuidBytes(uid) \o <<0, cmd, port \div 256, port % 256, atyp>> \o addr \o raw

FrameTcpOperator == EncodeHeader(1, operatorUUID, 1, 80, 2, <<2, 101, 120>>, <<71, 69>>)

FrameTcpFallback == EncodeHeader(0, fallbackUUID, 1, 443, 1, <<10, 0, 0, 1>>, <<>>)

FrameUdpFallback == EncodeHeader(0, fallbackUUID, 2, 53, 1, <<8, 8, 8, 8>>, <<7>>)

FrameUdpOperator == EncodeHeader(0, operatorUUID, 2, 53, 1, <<8, 8, 8, 8>>, <<7>>)

FrameData == <<80, 73, 78, 71>>

\* the inbound WebSocket frames a client may send
Frames == {FrameTcpOperator, FrameTcpFallback, FrameUdpFallback, FrameUdpOperator, FrameData}

\* the identifier a frame carries (bytes 1..16), when it is long enough
FrameIdentifier(buf) == IF Len(buf) >= 17 THEN SubSeq(buf, 2, 17) ELSE <<>>

\* ------------------------------------------------------------------ state
VARIABLES
  variant,              \* "callback" (main.ts) or "pipe" (part_000)
  userID,               \* the configured authorized identifier, set at start-up
  phase,                \* "listening" until the WebSocket opens, then "session"
  sessUserID,           \* processWebSocket's userID parameter
  earlyDataHeader,      \* processWebSocket's earlyDataHeader parameter
  wsState,              \* webSocket.readyState
  wsFirst,              \* the first frame sent on the WebSocket, <<>> when none
  wsHeaders,            \* response headers sent on the WebSocket
  wsChunks,             \* TCP chunks sent on the WebSocket
  lastDelay,            \* the delay waited before the last chunk sent (ms)
  address,              \* let address
  portRemote,           \* the port of portWithRandomLog
  remoteConnection,     \* let remoteConnection: 0 is null, else a connection
  conns,                \* the TCP connections dialled: "open", "eof", "closed"
  tcpWritten,           \* the buffers written to TCP connections, in order
  readableStreamCancel, \* let readableStreamCancel (in the stream for "pipe")
  pendingDials,         \* Deno.connect calls awaited: the handler's locals
  piped,                \* connections whose readable is piped to the WebSocket
  wsQueue,              \* "pipe": chunks enqueued in readableWebSocketStream
  streamState,          \* "pipe": readableWebSocketStream and its pipe
  mainFlow,             \* position of processWebSocket's own control flow
  remoteChunkCount,     \* "pipe": let remoteChunkCount
  rpc,                  \* "pipe": remote-to-ws write: "idle" or "delaying"
  frames,               \* inbound frames delivered to the session so far
  firstFrame,           \* the first inbound frame delivered, <<>> when none
  decodes,              \* processVlessHeader calls so far
  dials,                \* Deno.connect calls so far
  failedDials,          \* Deno.connect calls that threw
  writeFailed,          \* a remoteConnection.write of an inbound frame threw
  escaped,              \* an exception left the session's handlers uncaught
  badClose,             \* close() was called on a connection no longer open
  current,              \* the session whose handlers the event loop runs
  parked                \* the locals and sockets of the other session

vars ==
  <<variant, userID, phase, sessUserID, earlyDataHeader, wsState, wsFirst,
    wsHeaders, wsChunks, lastDelay, address, portRemote, remoteConnection,
    conns, tcpWritten, readableStreamCancel, pendingDials, piped, wsQueue,
    streamState, mainFlow, remoteChunkCount, rpc, frames, firstFrame, decodes,
    dials, failedDials, writeFailed, escaped, badClose, current, parked>>

configVars == <<variant, userID>>

requestVars == <<phase, sessUserID, earlyDataHeader>>

sentVars == <<wsFirst, wsHeaders, wsChunks, lastDelay>>

logVars == <<address, portRemote>>

tcpVars == <<remoteConnection, conns, tcpWritten>>

streamVars == <<wsQueue, streamState>>

throttleVars == <<remoteChunkCount, rpc>>

dialCounters == <<dials, failedDials>>

frameVars == <<frames, firstFrame>>

faultVars == <<writeFailed, escaped, badClose>>

otherVars == <<current, parked>>

\* a connection not yet accepted: processWebSocket's locals as declared
\* (main.ts 106-109, part_000 84-86, 97, 181) and its sockets before the
\* upgrade
SessionStart ==
  [phase |-> "listening", sessUserID |-> "", earlyDataHeader |-> <<>>,
   wsState |-> "CONNECTING", wsFirst |-> <<>>, wsHeaders |-> 0, wsChunks |-> 0,
   lastDelay |-> 0, address |-> <<>>, portRemote |-> 0, remoteConnection |-> 0,
   conns |-> <<>>, tcpWritten |-> <<>>, readableStreamCancel |-> FALSE,
   pendingDials |-> <<>>, piped |-> {}, wsQueue |-> <<>>, streamState |-> "none",
   mainFlow |-> "notStarted", remoteChunkCount |-> 0, rpc |-> "idle",
   frames |-> 0, firstFrame |-> <<>>, decodes |-> 0, dials |-> 0,
   failedDials |-> 0, writeFailed |-> FALSE, escaped |-> FALSE,
   badClose |-> FALSE]

Init ==
  /\ variant \in {"callback", "pipe"}
  /\ \E env \in EnvValues : userID = InitUserID(env)
  /\ phase = "listening"
  /\ sessUserID = ""
  /\ earlyDataHeader = <<>>
  /\ wsState = "CONNECTING"
  /\ wsFirst = <<>>
  /\ wsHeaders = 0
  /\ wsChunks = 0
  /\ lastDelay = 0
  /\ address = <<>>
  /\ portRemote = 0
  /\ remoteConnection = 0
  /\ conns = <<>>
  /\ tcpWritten = <<>>
  /\ readableStreamCancel = FALSE
  /\ pendingDials = <<>>
  /\ piped = {}
  /\ wsQueue = <<>>
  /\ streamState = "none"
  /\ mainFlow = "notStarted"
  /\ remoteChunkCount = 0
  /\ rpc = "idle"
  /\ frames = 0
  /\ firstFrame = <<>>
  /\ decodes = 0
  /\ dials = 0
  /\ failedDials = 0
  /\ writeFailed = FALSE
  /\ escaped = FALSE
  /\ badClose = FALSE
  /\ current = 1
  /\ parked = SessionStart

\* ---------------------------------------------------------------- helpers
\* closeWebSocket(socket): close() only when the socket is OPEN
closeWebSocket(s) == IF s = "OPEN" THEN "CLOSING" ELSE s

\* remoteConnection?.close(): a connection that reached EOF ("eof") or was
\* closed before is no longer there to close
RemoteClose(cs, rc) ==
  IF rc # 0 /\ cs[rc] = "open" THEN [cs EXCEPT ![rc] = "closed"] ELSE cs

\* remoteConnection?.close() on a connection that is no longer open: the
\* platform has no such resource any more and close() throws
BadClose(cs, rc) == rc # 0 /\ cs[rc] # "open"

\* remoteConnection.write(buffer) on connection rc
TcpWrite(w, cs, rc, buf) ==
  IF cs[rc] = "open" THEN Append(w, [conn |-> rc, data |-> buf]) ELSE w

\* the sequence without its i-th element
Without(q, i) == SubSeq(q, 1, i - 1) \o SubSeq(q, i + 1, Len(q))

\* the locals an invocation keeps across `await Deno.connect`
DialLocals(buf, h) ==
  [version |-> h.vlessVersion[1], raw |-> RawClientData(buf, h),
   port |-> h.portRemote, hostname |-> h.addressRemote]

\* the frame counters after delivering buf
FirstFrameAfter(buf) == IF frames = 0 THEN buf ELSE firstFrame

\* webSocket.send(frame): what the socket has sent, as <<first, headers, chunks>>
SendFirst(frame) == IF wsFirst = <<>> THEN frame ELSE wsFirst

\* --------------------------------------------- the WebSocket opens (both)
\* "callback": the upgrade handler registers socket.onopen with the identifier
\* taken from the URL and Hono's onOpen with the configured one; the platform
\* decides which of the two open callbacks starts the session.
\* processWebSocket then installs its handlers and decodes the early data.
CbOpen(u, e) ==
  /\ variant = "callback"
  /\ phase = "listening"
  /\ phase' = "session"
  /\ sessUserID' \in {getVlessUUID(u), userID}
  /\ earlyDataHeader' = e
  /\ mainFlow' = "returned"
  /\ wsState' = IF base64ToArrayBuffer(e).error THEN closeWebSocket("OPEN") ELSE "OPEN"
  /\ UNCHANGED <<configVars, otherVars, faultVars, sentVars, logVars, tcpVars, readableStreamCancel,
                 pendingDials, piped, streamVars, throttleVars, frameVars,
                 decodes, dialCounters>>

\* "pipe": Hono's onOpen starts processWebSocket with the configured identifier;
\* makeReadableWebSocketStream enqueues the early data as the first chunk, or
\* errors the stream, whose pipeTo then rejects into the catch (167-171)
PipeOpen(e) ==
  /\ variant = "pipe"
  /\ phase = "listening"
  /\ phase' = "session"
  /\ sessUserID' = userID
  /\ earlyDataHeader' = e
  /\ mainFlow' = "awaitReady"
  /\ LET d == base64ToArrayBuffer(e)
     IN IF d.error
        THEN /\ streamState' = "done"
             /\ wsQueue' = <<>>
             /\ wsState' = closeWebSocket("OPEN")
        ELSE /\ streamState' = "readable"
             /\ wsQueue' = IF d.earlyData # <<>> THEN <<d.earlyData>> ELSE <<>>
             /\ wsState' = "OPEN"
  /\ UNCHANGED <<configVars, otherVars, faultVars, sentVars, logVars, tcpVars, readableStreamCancel,
                 pendingDials, piped, throttleVars, frameVars, decodes,
                 dialCounters>>

\* ------------------------------------------------- "callback": ws -> remote
\* webSocket.onmessage (main.ts 117-196) up to its first await.  The platform
\* dispatches message events until the close event, also after close() was
\* called (readyState CLOSING).
CbOnMessage(buf) ==
  /\ variant = "callback"
  /\ phase = "session"
  /\ wsState \in {"OPEN", "CLOSING"}
  /\ frames < MaxFrames
  /\ frames' = frames + 1
  /\ firstFrame' = FirstFrameAfter(buf)
  /\ IF readableStreamCancel
     THEN UNCHANGED <<wsState, logVars, tcpVars, pendingDials, decodes, dials,
                      writeFailed, escaped>>
     ELSE IF remoteConnection # 0
     THEN /\ \E ok \in BOOLEAN :
               IF ok /\ conns[remoteConnection] = "open"
               THEN /\ tcpWritten' = TcpWrite(tcpWritten, conns, remoteConnection, buf)
                    /\ UNCHANGED <<writeFailed, escaped>>
               ELSE \* the write throws (124): the handler's promise rejects
                    \* and nothing catches it
                    /\ writeFailed' = TRUE
                    /\ escaped' = TRUE
                    /\ UNCHANGED tcpWritten
          /\ UNCHANGED <<wsState, logVars, remoteConnection, conns, pendingDials,
                         decodes, dials>>
     ELSE LET h == processVlessHeader(buf, sessUserID)
          IN /\ decodes' = decodes + 1
             /\ address' = h.addressRemote
             /\ portRemote' = h.portRemote
             /\ IF HeaderRejected(h) \/ h.isUDP
                THEN /\ wsState' = closeWebSocket(wsState)
                     /\ UNCHANGED <<pendingDials, dials>>
                ELSE /\ dials < MaxDials
                     /\ dials' = dials + 1
                     /\ pendingDials' = Append(pendingDials, DialLocals(buf, h))
                     /\ UNCHANGED wsState
             /\ UNCHANGED <<tcpVars, writeFailed, escaped>>
  /\ UNCHANGED <<configVars, otherVars, badClose, requestVars, sentVars,
                 readableStreamCancel, piped, streamVars, mainFlow, throttleVars,
                 failedDials>>

\* Deno.connect resolves (main.ts 157-190): the handler stores the connection,
\* writes the first frame's trailing bytes and pipes the connection's readable
\* to the WebSocket.  vlessResponseHeader is built and not used.
CbDialOk(i) ==
  /\ variant = "callback"
  /\ i \in 1..Len(pendingDials)
  /\ LET d == pendingDials[i]
         c == Len(conns) + 1
         cs == Append(conns, "open")
     IN /\ conns' = cs
        /\ remoteConnection' = c
        /\ tcpWritten' = IF d.raw # <<>> THEN TcpWrite(tcpWritten, cs, c, d.raw)
                         ELSE tcpWritten
        /\ piped' = piped \cup {c}
  /\ pendingDials' = Without(pendingDials, i)
  /\ UNCHANGED <<configVars, otherVars, faultVars, requestVars, wsState, sentVars, logVars,
                 readableStreamCancel, streamVars, mainFlow, throttleVars,
                 frameVars, decodes, dialCounters>>

\* Deno.connect throws (main.ts 192-195)
CbDialFail(i) ==
  /\ variant = "callback"
  /\ i \in 1..Len(pendingDials)
  /\ pendingDials' = Without(pendingDials, i)
  /\ failedDials' = failedDials + 1
  /\ wsState' = closeWebSocket(wsState)
  /\ UNCHANGED <<configVars, otherVars, faultVars, requestVars, sentVars, logVars, tcpVars,
                 readableStreamCancel, piped, streamVars, mainFlow, throttleVars,
                 frameVars, decodes, dials>>

\* ------------------------------------------------- "callback": remote -> ws
\* the sink's write (main.ts 170-177): a chunk read from connection c
CbRemoteWrite(c) ==
  /\ variant = "callback"
  /\ c \in piped
  /\ conns[c] = "open"
  /\ wsChunks < MaxChunks
  /\ IF wsState = "OPEN"
     THEN /\ wsFirst' = SendFirst(<<"chunk">>)
          /\ wsChunks' = wsChunks + 1
          /\ lastDelay' = 0
          /\ UNCHANGED <<conns, piped, wsHeaders, badClose>>
     ELSE \* controller.error, remoteConnection?.close(); the pipe ends,
          \* cancelling c's readable, and rejects into the catch (187-190)
          /\ conns' = [RemoteClose(conns, remoteConnection) EXCEPT ![c] = "closed"]
          /\ piped' = piped \ {c}
          /\ badClose' = (badClose \/ BadClose(conns, remoteConnection))
          /\ UNCHANGED sentVars
  /\ UNCHANGED <<configVars, otherVars, writeFailed, escaped, requestVars, wsState,
                 logVars, remoteConnection, tcpWritten, readableStreamCancel,
                 pendingDials, streamVars, mainFlow, throttleVars, frameVars,
                 decodes, dialCounters>>

\* CbRemoteClose with the sink's close handler leaving the WebSocket alone
CbRemoteClose_NoWsClose(c) ==
  /\ variant = "callback"
  /\ c \in piped
  /\ conns[c] = "open"
  /\ conns' = [conns EXCEPT ![c] = "eof"]
  /\ piped' = piped \ {c}
  /\ UNCHANGED <<configVars, otherVars, faultVars, requestVars, wsState, sentVars, logVars,
                 remoteConnection, tcpWritten, readableStreamCancel, pendingDials,
                 streamVars, mainFlow, throttleVars, frameVars, decodes,
                 dialCounters>>

\* the sink's close (main.ts 178-181): connection c reached EOF
CbRemoteClose(c) ==
  /\ variant = "callback"
  /\ c \in piped
  /\ conns[c] = "open"
  /\ conns' = [conns EXCEPT ![c] = "eof"]
  /\ piped' = piped \ {c}
  /\ wsState' = closeWebSocket(wsState)
  /\ UNCHANGED <<configVars, otherVars, faultVars, requestVars, sentVars, logVars, remoteConnection,
                 tcpWritten, readableStreamCancel, pendingDials, streamVars,
                 mainFlow, throttleVars, frameVars, decodes, dialCounters>>

\* the sink's abort and the pipe's catch (main.ts 182-190): reading c failed
CbRemoteAbort(c) ==
  /\ variant = "callback"
  /\ c \in piped
  /\ conns[c] = "open"
  /\ conns' = [conns EXCEPT ![c] = "eof"]
  /\ piped' = piped \ {c}
  /\ wsState' = closeWebSocket(closeWebSocket(wsState))
  /\ UNCHANGED <<configVars, otherVars, faultVars, requestVars, sentVars, logVars, remoteConnection,
                 tcpWritten, readableStreamCancel, pendingDials, streamVars,
                 mainFlow, throttleVars, frameVars, decodes, dialCounters>>

\* ------------------------------------------- "callback": WebSocket events
\* CbOnError with readableStreamCancel declared at module level: one flag
\* for every session
CbOnError_SharedCancel ==
  /\ variant = "callback"
  /\ phase = "session"
  /\ wsState \in {"OPEN", "CLOSING"}
  /\ wsState' = "CLOSED"
  /\ readableStreamCancel' = TRUE
  /\ parked' = [parked EXCEPT !.readableStreamCancel = TRUE]
  /\ conns' = RemoteClose(conns, remoteConnection)
  /\ badClose' = (badClose \/ BadClose(conns, remoteConnection))
  /\ escaped' = (escaped \/ BadClose(conns, remoteConnection))
  /\ UNCHANGED <<configVars, current, writeFailed, requestVars, sentVars, logVars,
                 remoteConnection, tcpWritten, pendingDials, piped, streamVars,
                 mainFlow, throttleVars, frameVars, decodes, dialCounters>>

\* webSocket.onerror (main.ts 198-202), then the close event that follows an
\* error, whose onclose returns at once because readableStreamCancel is set.
\* Nothing catches what remoteConnection?.close() throws in onerror.
CbOnError ==
  /\ variant = "callback"
  /\ phase = "session"
  /\ wsState \in {"OPEN", "CLOSING"}
  /\ wsState' = "CLOSED"
  /\ readableStreamCancel' = TRUE
  /\ conns' = RemoteClose(conns, remoteConnection)
  /\ badClose' = (badClose \/ BadClose(conns, remoteConnection))
  /\ escaped' = (escaped \/ BadClose(conns, remoteConnection))
  /\ UNCHANGED <<configVars, otherVars, writeFailed, requestVars, sentVars, logVars,
                 remoteConnection, tcpWritten, pendingDials, piped, streamVars,
                 mainFlow, throttleVars, frameVars, decodes, dialCounters>>

\* webSocket.onclose (main.ts 204-214): the peer closed, or the close the
\* session asked for completed
CbOnClose ==
  /\ variant = "callback"
  /\ phase = "session"
  /\ wsState \in {"OPEN", "CLOSING"}
  /\ wsState' = "CLOSED"
  /\ conns' = IF readableStreamCancel THEN conns
              ELSE RemoteClose(conns, remoteConnection)
  \* what close() throws is caught inside onclose (211-213)
  /\ badClose' = (badClose \/ (~readableStreamCancel /\ BadClose(conns, remoteConnection)))
  /\ UNCHANGED <<configVars, otherVars, writeFailed, escaped, requestVars, sentVars,
                 logVars, remoteConnection, tcpWritten, readableStreamCancel,
                 pendingDials, piped, streamVars, mainFlow, throttleVars,
                 frameVars, decodes, dialCounters>>

\* ----------------------------------------------------- "pipe": ws -> remote
\* the stream's message listener: enqueue unless cancelled; enqueueing on a
\* stream that is no longer readable throws inside the listener.  The pipe
\* takes a queued chunk before the next event is dispatched, so a frame finds
\* chunks queued only behind a write that is awaiting its dial.  The platform
\* dispatches message events until the close event, also after close() was
\* called (readyState CLOSING).
PipeOnMessage(buf) ==
  /\ variant = "pipe"
  /\ phase = "session"
  /\ wsState \in {"OPEN", "CLOSING"}
  /\ frames < MaxFrames
  /\ wsQueue = <<>> \/ pendingDials # <<>>
  /\ frames' = frames + 1
  /\ firstFrame' = FirstFrameAfter(buf)
  /\ wsQueue' = IF ~readableStreamCancel /\ streamState = "readable"
                THEN Append(wsQueue, buf) ELSE wsQueue
  /\ UNCHANGED <<configVars, otherVars, faultVars, requestVars, wsState, sentVars, logVars, tcpVars,
                 readableStreamCancel, pendingDials, piped, streamState,
                 mainFlow, throttleVars, decodes, dialCounters>>

\* the sink's write (part_000 107-156) of the next queued chunk, up to its
\* first await; the stream runs one write at a time
PipeWrite ==
  /\ variant = "pipe"
  /\ streamState \in {"readable", "closing"}
  /\ wsQueue # <<>>
  /\ pendingDials = <<>>
  /\ LET buf == Head(wsQueue)
         h == processVlessHeader(buf, sessUserID)
     IN IF remoteConnection # 0
        THEN \E ok \in BOOLEAN :
             IF ok /\ conns[remoteConnection] = "open"
             THEN /\ tcpWritten' = TcpWrite(tcpWritten, conns, remoteConnection, buf)
                  /\ wsQueue' = Tail(wsQueue)
                  /\ UNCHANGED <<wsState, logVars, remoteConnection, conns,
                                 readableStreamCancel, pendingDials, streamState,
                                 decodes, dials, faultVars>>
             ELSE \* the write throws (110): the pipe cancels the stream (which
                  \* sets readableStreamCancel and closes the WebSocket) and
                  \* rejects into the catch (167-171); nothing catches what
                  \* remoteConnection?.close() throws there
                  /\ streamState' = "done"
                  /\ wsQueue' = <<>>
                  /\ readableStreamCancel' = TRUE
                  /\ wsState' = closeWebSocket(closeWebSocket(wsState))
                  /\ conns' = RemoteClose(conns, remoteConnection)
                  /\ writeFailed' = TRUE
                  /\ badClose' = (badClose \/ BadClose(conns, remoteConnection))
                  /\ escaped' = (escaped \/ BadClose(conns, remoteConnection))
                  /\ UNCHANGED <<logVars, remoteConnection, tcpWritten,
                                 pendingDials, decodes, dials>>
        ELSE /\ decodes' = decodes + 1
             /\ address' = h.addressRemote
             /\ portRemote' = h.portRemote
             /\ wsQueue' = Tail(wsQueue)
             /\ IF HeaderRejected(h) \/ h.isUDP
                THEN /\ wsState' = closeWebSocket(wsState)
                     /\ UNCHANGED <<pendingDials, dials>>
                ELSE /\ dials < MaxDials
                     /\ dials' = dials + 1
                     /\ pendingDials' = <<DialLocals(buf, h)>>
                     /\ UNCHANGED wsState
             /\ UNCHANGED <<tcpVars, readableStreamCancel, streamState, faultVars>>
  /\ UNCHANGED <<configVars, otherVars, requestVars, sentVars, piped, mainFlow,
                 throttleVars, frameVars, failedDials>>

\* Deno.connect resolves (part_000 142-151): store the connection, write the
\* trailing bytes, resolve the promise.  processWebSocket resumes (175-190):
\* it pipes the connection's readable to the WebSocket, and the sink's start
\* sends the response header when the WebSocket is OPEN.
PipeDialOk ==
  /\ variant = "pipe"
  /\ pendingDials # <<>>
  /\ LET d == pendingDials[1]
         c == Len(conns) + 1
         cs == Append(conns, "open")
         hdr == <<"header", <<d.version, 0>>>>
     IN /\ conns' = cs
        /\ remoteConnection' = c
        /\ tcpWritten' = IF d.raw # <<>> THEN TcpWrite(tcpWritten, cs, c, d.raw)
                         ELSE tcpWritten
        /\ IF mainFlow = "awaitReady"
           THEN /\ mainFlow' = "relaying"
                /\ piped' = piped \cup {c}
                /\ IF wsState = "OPEN"
                   THEN /\ wsFirst' = SendFirst(hdr)
                        /\ wsHeaders' = wsHeaders + 1
                   ELSE UNCHANGED <<wsFirst, wsHeaders>>
           ELSE UNCHANGED <<mainFlow, piped, wsFirst, wsHeaders>>
  /\ pendingDials' = <<>>
  /\ UNCHANGED <<configVars, otherVars, faultVars, requestVars, wsState, wsChunks, lastDelay, logVars,
                 readableStreamCancel, streamVars, throttleVars, frameVars,
                 decodes, dialCounters>>

\* Deno.connect throws (part_000 152-155)
PipeDialFail ==
  /\ variant = "pipe"
  /\ pendingDials # <<>>
  /\ pendingDials' = <<>>
  /\ failedDials' = failedDials + 1
  /\ wsState' = closeWebSocket(wsState)
  /\ UNCHANGED <<configVars, otherVars, faultVars, requestVars, sentVars, logVars, tcpVars,
                 readableStreamCancel, piped, streamVars, mainFlow, throttleVars,
                 frameVars, decodes, dials>>

\* the sink's close (part_000 157-160), once the closed stream has drained.
\* When remoteConnection?.close() throws, the pipe rejects into the catch
\* (167-171), whose closeWebSocket finds the WebSocket CLOSED and whose
\* remoteConnection?.close() throws again, uncaught.
PipeSinkClose ==
  /\ variant = "pipe"
  /\ streamState = "closing"
  /\ wsQueue = <<>>
  /\ pendingDials = <<>>
  /\ streamState' = "done"
  /\ conns' = RemoteClose(conns, remoteConnection)
  /\ badClose' = (badClose \/ BadClose(conns, remoteConnection))
  /\ escaped' = (escaped \/ BadClose(conns, remoteConnection))
  /\ UNCHANGED <<configVars, otherVars, writeFailed, requestVars, wsState, sentVars,
                 logVars, remoteConnection, tcpWritten, readableStreamCancel,
                 pendingDials, piped, wsQueue, mainFlow, throttleVars, frameVars,
                 decodes, dialCounters>>

\* the sink's abort (part_000 161-164) once the write in flight has settled,
\* then the pipe's catch (167-171): both call remoteConnection?.close(), and
\* nothing catches what the second call throws
PipeSinkAbort ==
  /\ variant = "pipe"
  /\ streamState = "errored"
  /\ pendingDials = <<>>
  /\ streamState' = "done"
  /\ conns' = RemoteClose(RemoteClose(conns, remoteConnection), remoteConnection)
  /\ wsState' = closeWebSocket(wsState)
  /\ badClose' = (badClose \/ BadClose(RemoteClose(conns, remoteConnection), remoteConnection))
  /\ escaped' = (escaped \/ BadClose(RemoteClose(conns, remoteConnection), remoteConnection))
  /\ UNCHANGED <<configVars, otherVars, writeFailed, requestVars, sentVars, logVars,
                 remoteConnection, tcpWritten, readableStreamCancel, pendingDials,
                 piped, wsQueue, mainFlow, throttleVars, frameVars, decodes,
                 dialCounters>>

\* --------------------------------------------- "pipe": WebSocket events
\* the stream's error listener (sets readableStreamCancel, errors the stream,
\* which drops what is queued), then the close event that follows an error
PipeOnError ==
  /\ variant = "pipe"
  /\ phase = "session"
  /\ wsState \in {"OPEN", "CLOSING"}
  /\ wsState' = "CLOSED"
  /\ readableStreamCancel' = TRUE
  /\ IF streamState \in {"readable", "closing"}
     THEN /\ streamState' = "errored"
          /\ wsQueue' = <<>>
     ELSE UNCHANGED streamVars
  /\ UNCHANGED <<configVars, otherVars, faultVars, requestVars, sentVars, logVars, tcpVars,
                 pendingDials, piped, mainFlow, throttleVars, frameVars, decodes,
                 dialCounters>>

\* the stream's close listener: close the stream unless cancelled
PipeOnClose ==
  /\ variant = "pipe"
  /\ phase = "session"
  /\ wsState \in {"OPEN", "CLOSING"}
  /\ wsState' = "CLOSED"
  /\ streamState' = IF ~readableStreamCancel /\ streamState = "readable"
                    THEN "closing" ELSE streamState
  /\ UNCHANGED <<configVars, otherVars, faultVars, requestVars, sentVars, logVars, tcpVars,
                 readableStreamCancel, pendingDials, piped, wsQueue, mainFlow,
                 throttleVars, frameVars, decodes, dialCounters>>

\* ----------------------------------------------------- "pipe": remote -> ws
\* ThrottleDelay with the first tier's comparison written <= instead of <
ThrottleDelay_OffByOne(n) ==
  IF n <= 20 THEN 0
  ELSE IF n < 120 THEN 10
  ELSE IF n < 500 THEN 20
  ELSE 50

\* the delay awaited before send2WebSocket for the chunk that made the counter
\* n (part_000 203-214); 0 stands for the branch that does not await
ThrottleDelay(n) ==
  IF n < 20 THEN 0
  ELSE IF n < 120 THEN 10
  ELSE IF n < 500 THEN 20
  ELSE 50

\* PipeRemoteWrite with remoteChunkCount++ moved above the readyState check
PipeRemoteWrite_CountsFirst(c, cap) ==
  /\ variant = "pipe"
  /\ c \in piped
  /\ conns[c] = "open"
  /\ rpc = "idle"
  /\ remoteChunkCount < cap
  /\ remoteChunkCount' = remoteChunkCount + 1
  /\ IF wsState # "OPEN"
     THEN /\ conns' = RemoteClose(RemoteClose(conns, remoteConnection), remoteConnection)
          /\ piped' = piped \ {c}
          /\ mainFlow' = "caught"
          /\ badClose' = (badClose \/ BadClose(RemoteClose(conns, remoteConnection), remoteConnection))
          /\ escaped' = (escaped \/ BadClose(RemoteClose(conns, remoteConnection), remoteConnection))
          /\ UNCHANGED <<sentVars, rpc>>
     ELSE /\ IF ThrottleDelay(remoteChunkCount + 1) = 0
             THEN /\ wsFirst' = SendFirst(<<"chunk">>)
                  /\ wsChunks' = wsChunks + 1
                  /\ lastDelay' = 0
                  /\ rpc' = "idle"
             ELSE /\ rpc' = "delaying"
                  /\ lastDelay' = ThrottleDelay(remoteChunkCount + 1)
                  /\ UNCHANGED <<wsFirst, wsChunks>>
          /\ UNCHANGED <<conns, piped, mainFlow, wsHeaders, badClose, escaped>>
  /\ UNCHANGED <<configVars, otherVars, writeFailed, requestVars, wsState, logVars,
                 remoteConnection, tcpWritten, readableStreamCancel, pendingDials,
                 streamVars, frameVars, decodes, dialCounters>>

\* the sink's write (part_000 191-215) up to `await delay`: a chunk read from
\* connection c; cap bounds the chunks read in one session
PipeRemoteWrite(c, cap) ==
  /\ variant = "pipe"
  /\ c \in piped
  /\ conns[c] = "open"
  /\ rpc = "idle"
  /\ remoteChunkCount < cap
  /\ IF wsState # "OPEN"
     THEN \* controller.error, remoteConnection?.close(); the pipe rejects
          \* into processWebSocket's catch (226-233), which calls
          \* remoteConnection?.close() again; what that throws rejects the
          \* promise of processWebSocket, which nothing awaits
          /\ conns' = RemoteClose(RemoteClose(conns, remoteConnection), remoteConnection)
          /\ piped' = piped \ {c}
          /\ mainFlow' = "caught"
          /\ badClose' = (badClose \/ BadClose(RemoteClose(conns, remoteConnection), remoteConnection))
          /\ escaped' = (escaped \/ BadClose(RemoteClose(conns, remoteConnection), remoteConnection))
          /\ UNCHANGED <<sentVars, throttleVars>>
     ELSE /\ remoteChunkCount' = remoteChunkCount + 1
          /\ IF ThrottleDelay(remoteChunkCount + 1) = 0
             THEN /\ wsFirst' = SendFirst(<<"chunk">>)
                  /\ wsChunks' = wsChunks + 1
                  /\ lastDelay' = 0
                  /\ rpc' = "idle"
             ELSE /\ rpc' = "delaying"
                  /\ lastDelay' = ThrottleDelay(remoteChunkCount + 1)
                  /\ UNCHANGED <<wsFirst, wsChunks>>
          /\ UNCHANGED <<conns, piped, mainFlow, wsHeaders, badClose, escaped>>
  /\ UNCHANGED <<configVars, otherVars, writeFailed, requestVars, wsState, logVars,
                 remoteConnection, tcpWritten, readableStreamCancel, pendingDials,
                 streamVars, frameVars, decodes, dialCounters>>

\* the delay elapsed: send2WebSocket() (part_000 201, 207-213), which does
\* not look at readyState again.  On a WebSocket that is no longer OPEN the
\* platform's send() drops the frame or throws; when it throws, the pipe
\* rejects into processWebSocket's catch (226-233).
PipeRemoteSend ==
  /\ variant = "pipe"
  /\ rpc = "delaying"
  /\ rpc' = "idle"
  /\ IF wsState = "OPEN"
     THEN /\ wsFirst' = SendFirst(<<"chunk">>)
          /\ wsChunks' = wsChunks + 1
          /\ UNCHANGED <<tcpVars, piped, mainFlow, badClose, escaped>>
     ELSE /\ UNCHANGED <<wsFirst, wsChunks>>
          /\ \E throws \in BOOLEAN :
               IF throws
               THEN /\ conns' = RemoteClose(conns, remoteConnection)
                    /\ piped' = {}
                    /\ mainFlow' = "caught"
                    /\ badClose' = (badClose \/ BadClose(conns, remoteConnection))
                    /\ escaped' = (escaped \/ BadClose(conns, remoteConnection))
                    /\ UNCHANGED <<remoteConnection, tcpWritten>>
               ELSE UNCHANGED <<tcpVars, piped, mainFlow, badClose, escaped>>
  /\ UNCHANGED <<configVars, otherVars, writeFailed, requestVars, wsState, wsHeaders,
                 lastDelay, logVars, readableStreamCancel, pendingDials,
                 streamVars, remoteChunkCount, frameVars, decodes, dialCounters>>

\* the sink's close (part_000 216-219): connection c reached EOF
PipeRemoteClose(c) ==
  /\ variant = "pipe"
  /\ c \in piped
  /\ conns[c] = "open"
  /\ rpc = "idle"
  /\ conns' = [conns EXCEPT ![c] = "eof"]
  /\ piped' = piped \ {c}
  /\ mainFlow' = "returned"
  /\ wsState' = closeWebSocket(wsState)
  /\ UNCHANGED <<configVars, otherVars, faultVars, requestVars, sentVars, logVars, remoteConnection,
                 tcpWritten, readableStreamCancel, pendingDials, streamVars,
                 throttleVars, frameVars, decodes, dialCounters>>

\* the sink's abort (part_000 220-223): reading c failed; the pipe rejects
\* into processWebSocket's catch (226-233), whose remoteConnection?.close()
\* finds the connection gone; what it throws rejects the promise of
\* processWebSocket, which nothing awaits
PipeRemoteAbort(c) ==
  /\ variant = "pipe"
  /\ c \in piped
  /\ conns[c] = "open"
  /\ rpc = "idle"
  /\ conns' = RemoteClose([conns EXCEPT ![c] = "eof"], remoteConnection)
  /\ piped' = piped \ {c}
  /\ mainFlow' = "caught"
  /\ wsState' = closeWebSocket(closeWebSocket(wsState))
  /\ badClose' = (badClose \/ BadClose([conns EXCEPT ![c] = "eof"], remoteConnection))
  /\ escaped' = (escaped \/ BadClose([conns EXCEPT ![c] = "eof"], remoteConnection))
  /\ UNCHANGED <<configVars, otherVars, writeFailed, requestVars, sentVars, logVars,
                 remoteConnection, tcpWritten, readableStreamCancel, pendingDials,
                 streamVars, throttleVars, frameVars, decodes, dialCounters>>

\* ------------------------------------------------------------ specification
Next ==
  \/ \E u \in Urls, e \in EarlyDataHeaders : CbOpen(u, e)
  \/ \E buf \in Frames : CbOnMessage(buf)
  \/ \E i \in 1..MaxDials : CbDialOk(i)
  \/ \E i \in 1..MaxDials : CbDialFail(i)
  \/ \E c \in 1..MaxDials : CbRemoteWrite(c)
  \/ \E c \in 1..MaxDials : CbRemoteClose(c)
  \/ \E c \in 1..MaxDials : CbRemoteAbort(c)
  \/ CbOnError
  \/ CbOnClose
  \/ \E e \in EarlyDataHeaders : PipeOpen(e)
  \/ \E buf \in Frames : PipeOnMessage(buf)
  \/ PipeWrite
  \/ PipeDialOk
  \/ PipeDialFail
  \/ PipeSinkClose
  \/ PipeSinkAbort
  \/ PipeOnError
  \/ PipeOnClose
  \/ \E c \in 1..MaxDials : PipeRemoteWrite(c, MaxCountedChunks)
  \/ PipeRemoteSend
  \/ \E c \in 1..MaxDials : PipeRemoteClose(c)
  \/ \E c \in 1..MaxDials : PipeRemoteAbort(c)

Spec == Init /\ [][Next]_vars

\* the platform completes a close the session asked for: once close() was
\* called (readyState CLOSING) the close event is eventually dispatched
FairSpec ==
  /\ Spec
  /\ WF_vars(CbOnClose /\ wsState = "CLOSING")
  /\ WF_vars(PipeOnClose /\ wsState = "CLOSING")

\* "pipe": besides, the event loop runs what is ready: the sink's write of a
\* queued chunk, the settling of Deno.connect, the sink's close and abort, and
\* the send after the throttle's delay
LiveSpec ==
  /\ FairSpec
  /\ WF_vars(PipeWrite)
  /\ WF_vars(PipeDialOk \/ PipeDialFail)
  /\ WF_vars(PipeSinkClose)
  /\ WF_vars(PipeSinkAbort)
  /\ WF_vars(PipeRemoteSend)

\* ------------------------------------------------- two accepted connections
\* Each accepted connection runs processWebSocket once; what the run declares
\* with let/const (main.ts 106-109, part_000 84-97, 181) and the sockets it was
\* handed exist once per run.  The variables above are those of the session
\* whose handler the event loop runs; parked holds those of the other one.
SessionState ==
  [phase |-> phase, sessUserID |-> sessUserID, earlyDataHeader |-> earlyDataHeader,
   wsState |-> wsState, wsFirst |-> wsFirst, wsHeaders |-> wsHeaders,
   wsChunks |-> wsChunks, lastDelay |-> lastDelay, address |-> address,
   portRemote |-> portRemote, remoteConnection |-> remoteConnection,
   conns |-> conns, tcpWritten |-> tcpWritten,
   readableStreamCancel |-> readableStreamCancel, pendingDials |-> pendingDials,
   piped |-> piped, wsQueue |-> wsQueue, streamState |-> streamState,
   mainFlow |-> mainFlow, remoteChunkCount |-> remoteChunkCount, rpc |-> rpc,
   frames |-> frames, firstFrame |-> firstFrame, decodes |-> decodes,
   dials |-> dials, failedDials |-> failedDials, writeFailed |-> writeFailed,
   escaped |-> escaped, badClose |-> badClose]

\* the event loop turns from one session's handlers to the other's
Switch ==
  /\ current' = 3 - current
  /\ parked' = SessionState
  /\ phase' = parked.phase
  /\ sessUserID' = parked.sessUserID
  /\ earlyDataHeader' = parked.earlyDataHeader
  /\ wsState' = parked.wsState
  /\ wsFirst' = parked.wsFirst
  /\ wsHeaders' = parked.wsHeaders
  /\ wsChunks' = parked.wsChunks
  /\ lastDelay' = parked.lastDelay
  /\ address' = parked.address
  /\ portRemote' = parked.portRemote
  /\ remoteConnection' = parked.remoteConnection
  /\ conns' = parked.conns
  /\ tcpWritten' = parked.tcpWritten
  /\ readableStreamCancel' = parked.readableStreamCancel
  /\ pendingDials' = parked.pendingDials
  /\ piped' = parked.piped
  /\ wsQueue' = parked.wsQueue
  /\ streamState' = parked.streamState
  /\ mainFlow' = parked.mainFlow
  /\ remoteChunkCount' = parked.remoteChunkCount
  /\ rpc' = parked.rpc
  /\ frames' = parked.frames
  /\ firstFrame' = parked.firstFrame
  /\ decodes' = parked.decodes
  /\ dials' = parked.dials
  /\ failedDials' = parked.failedDials
  /\ writeFailed' = parked.writeFailed
  /\ escaped' = parked.escaped
  /\ badClose' = parked.badClose
  /\ UNCHANGED configVars

\* the steps of the session that runs: it opens, receives header frames, dials
\* (the dial succeeds or fails), relays chunks, and its WebSocket fails
SessionStep ==
  \/ \E u \in Urls : CbOpen(u, <<>>)
  \/ frames < MaxSessionFrames /\ CbOnMessage(FrameTcpFallback)
  \/ \E i \in 1..MaxDials : CbDialOk(i)
  \/ \E i \in 1..MaxDials : CbDialFail(i)
  \/ \E c \in 1..MaxDials : wsChunks < MaxSessionChunks /\ CbRemoteWrite(c)
  \/ CbOnError
  \/ PipeOpen(<<>>)
  \/ frames < MaxSessionFrames /\ PipeOnMessage(FrameTcpFallback)
  \/ PipeWrite
  \/ PipeDialOk
  \/ PipeDialFail
  \/ \E c \in 1..MaxDials : PipeRemoteWrite(c, MaxSessionChunks)
  \/ PipeOnError
  \/ PipeSinkAbort

SessionsNext == SessionStep \/ Switch

\* the process was started without a UUID in its environment
SessionsInit == Init /\ userID = InitUserID("")

SessionsSpec == SessionsInit /\ [][SessionsNext]_vars

\* ------------------------------------------- the throttle on a long relay
\* a "pipe" session in Relaying: the state Spec reaches by PipeOpen(<<>>),
\* PipeOnMessage(FrameTcpFallback), PipeWrite, PipeDialOk
ThrottleInit ==
  /\ variant = "pipe"
  /\ userID = fallbackUUID
  /\ phase = "session"
  /\ sessUserID = fallbackUUID
  /\ earlyDataHeader = <<>>
  /\ wsState = "OPEN"
  /\ wsFirst = <<"header", <<0, 0>>>>
  /\ wsHeaders = 1
  /\ wsChunks = 0
  /\ lastDelay = 0
  /\ address = <<"ipv4", <<10, 0, 0, 1>>>>
  /\ portRemote = 443
  /\ remoteConnection = 1
  /\ conns = <<"open">>
  /\ tcpWritten = <<>>
  /\ readableStreamCancel = FALSE
  /\ pendingDials = <<>>
  /\ piped = {1}
  /\ wsQueue = <<>>
  /\ streamState = "readable"
  /\ mainFlow = "relaying"
  /\ remoteChunkCount = 0
  /\ rpc = "idle"
  /\ frames = 1
  /\ firstFrame = FrameTcpFallback
  /\ decodes = 1
  /\ dials = 1
  /\ failedDials = 0
  /\ writeFailed = FALSE
  /\ escaped = FALSE
  /\ badClose = FALSE
  /\ current = 1
  /\ parked = SessionStart

ThrottleNext ==
  \/ \E c \in 1..MaxDials : PipeRemoteWrite(c, MaxThrottleChunks)
  \/ PipeRemoteSend
  \/ \E c \in 1..MaxDials : PipeRemoteClose(c)
  \/ PipeOnClose
  \/ PipeSinkClose

ThrottleSpec == ThrottleInit /\ [][ThrottleNext]_vars

\* ------------------------------------------------------------------ claims
\* the early data the request header decodes to
EarlyData == base64ToArrayBuffer(earlyDataHeader).earlyData

\* nothing of the session is in flight: no dial awaited, no chunk queued, no
\* stream close or abort outstanding, no send delayed
Quiescent ==
  /\ pendingDials = <<>>
  /\ wsQueue = <<>>
  /\ streamState \notin {"closing", "errored"}
  /\ rpc = "idle"

\* C1: a first frame whose identifier differs from the configured authorized
\* identifier fails header processing, the WebSocket is closed, and the
\* session never dials.
C1_MismatchNeverDials ==
  (firstFrame # <<>> /\ FrameIdentifier(firstFrame) # UuidBytes(userID))
    => /\ dials = 0
       /\ decodes >= 1 => wsState # "OPEN"

\* C2: once a dial has succeeded, the response header [version, 0] has been
\* sent on the (open) WebSocket exactly once, and it is the first frame sent:
\* no TCP chunk precedes it.
C2_ResponseHeaderFirst ==
  conns # <<>>
    => /\ wsHeaders <= 1
       /\ wsState = "OPEN" => wsHeaders = 1
       /\ wsFirst # <<>> => (wsFirst[1] = "header" /\ wsFirst[2][2] = 0)

\* C3: when the early data decodes to a non-empty payload and a dial has
\* succeeded, the first buffer written to the TCP connection is that payload.
C3_EarlyDataWritten ==
  (EarlyData # <<>> /\ conns # <<>>)
    => (tcpWritten # <<>> /\ tcpWritten[1].data = EarlyData)

\* C4: no execution ends with the WebSocket closed and a TCP connection of
\* the session open: once the WebSocket is CLOSED and nothing of the session
\* is in flight, every connection dialled is closed.
C4_ClosedWebSocketClosesTcp ==
  (wsState = "CLOSED" /\ Quiescent)
    => \A c \in 1..Len(conns) : conns[c] # "open"

\* C5: every chunk sent on the WebSocket went through the throttle (it was
\* counted before it was sent), and after 600 chunks the delay waited is at
\* least 50 ms.
C5_EveryChunkThrottled ==
  /\ wsChunks <= remoteChunkCount
  /\ wsChunks > 600 => lastDelay >= 50

\* C6: the delay applied to the n-th chunk is 0 ms for n < 20, 10 ms for
\* 20..119, 20 ms for 120..499 and 50 ms from 500 on; it depends only on n
\* and never decreases as n grows.
C6_ThrottleTiers ==
  remoteChunkCount >= 1
    => /\ remoteChunkCount < 20 => lastDelay = 0
       /\ (20 <= remoteChunkCount /\ remoteChunkCount <= 119) => lastDelay = 10
       /\ (120 <= remoteChunkCount /\ remoteChunkCount <= 499) => lastDelay = 20
       /\ remoteChunkCount >= 500 => lastDelay = 50
       /\ \A m \in 1..remoteChunkCount : ThrottleDelay(m) <= lastDelay

\* C6 witness: the 500th chunk of a session waits 50 ms
C6_Witness == remoteChunkCount = 500 /\ rpc = "delaying" /\ lastDelay = 50

\* C7: when the first frame decodes to a header with command UDP, the
\* WebSocket is closed and no TCP connection is dialled later in the session.
C7_UdpNeverConnects ==
  (earlyDataHeader = <<>> /\ decodes >= 1
     /\ ~HeaderRejected(processVlessHeader(firstFrame, sessUserID))
     /\ processVlessHeader(firstFrame, sessUserID).isUDP)
    => (wsState # "OPEN" /\ dials = 0 /\ conns = <<>>)

\* C8: when the early-data string fails to decode, the WebSocket is closed and
\* no later frame leads to a header decode, a dial or a TCP write.
C8_EarlyDataErrorTerminates ==
  (phase = "session" /\ base64ToArrayBuffer(earlyDataHeader).error)
    => (wsState # "OPEN" /\ decodes = 0 /\ dials = 0 /\ tcpWritten = <<>>)

\* C9: once a dial has failed, the WebSocket is closed and every later step
\* of the session sends no response header, writes nothing to TCP and dials
\* no second time.
C9_DialFailureIsFinal ==
  [][failedDials > 0 =>
       /\ wsState' # "OPEN"
       /\ wsHeaders' = wsHeaders
       /\ tcpWritten' = tcpWritten
       /\ dials' = dials]_vars

\* C10: once the TCP connection of a relaying session has reached EOF or its
\* read has failed, the session has closed the WebSocket (it is no longer
\* OPEN) and unpiped the connection, and the WebSocket eventually is CLOSED.
C10_RemoteEndClosesWebSocket ==
  /\ [](\A c \in 1..Len(conns) :
          conns[c] = "eof" => (wsState \in {"CLOSING", "CLOSED"} /\ c \notin piped))
  /\ (\E c \in 1..Len(conns) : conns[c] = "eof") ~> (wsState = "CLOSED")

\* C10 witness: a relaying session whose TCP connection ended and whose
\* WebSocket close has completed
C10_Witness ==
  /\ remoteConnection # 0
  /\ conns[remoteConnection] = "eof"
  /\ wsChunks >= 1
  /\ wsState = "CLOSED"

\* what the claims call a session's mutable state: its remote connection,
\* cancelled flag, chunk count and address/port
SessionLocals(r) ==
  <<r.remoteConnection, r.conns, r.readableStreamCancel, r.remoteChunkCount,
    r.wsChunks, r.address, r.portRemote>>

\* C11: sessions share no mutable state: a step of one session (its dial
\* failure and its WebSocket error included) leaves the other session's remote
\* connection, cancelled flag, chunk count and address/port as they were, the
\* event loop's turn from one session to the other changes neither session's,
\* and the configured authorized identifier is never modified after start-up.
C11_SessionsShareNothing ==
  [][/\ userID' = userID
     /\ current' = current => SessionLocals(parked') = SessionLocals(parked)
     /\ current' # current =>
          /\ SessionLocals(parked') = SessionLocals(SessionState)
          /\ SessionLocals(SessionState') = SessionLocals(parked)]_vars

\* C11 witness: one session relays (connection open, a chunk forwarded, not
\* cancelled) while the other one's dial has failed and its WebSocket errored
C11_Witness ==
  /\ parked.remoteConnection # 0
  /\ parked.conns[parked.remoteConnection] = "open"
  /\ parked.wsState = "OPEN"
  /\ parked.wsChunks >= 1
  /\ ~parked.readableStreamCancel
  /\ failedDials > 0
  /\ readableStreamCancel

\* C12: while the outbound dial is pending, no inbound frame is decoded as a
\* header and no second dial is attempted, whatever the order of frame
\* arrivals and the dial's completion.
C12_PendingDialBlocksFrames ==
  [][pendingDials # <<>> =>
       /\ decodes' = decodes
       /\ dials' = dials
       /\ Len(pendingDials') <= 1]_vars

\* C13: once a TCP write of an inbound frame has failed, the WebSocket is no
\* longer OPEN, the TCP connection is no longer open, and no exception has
\* left the session's handlers uncaught.
C13_WriteFailureClosesBoth ==
  writeFailed =>
    /\ ~escaped
    /\ wsState # "OPEN"
    /\ remoteConnection # 0 => conns[remoteConnection] # "open"

\* the session has entered Closed: its WebSocket was closed by the session, by
\* the peer or by an error
SessionClosed == phase = "session" /\ wsState \in {"CLOSING", "CLOSED"}

\* C14: once the session has entered Closed its cancelled flag is set, it
\* stays Closed, and no later step decodes a header, dials, writes to TCP or
\* sends on the WebSocket.
C14_ClosedIsTerminal ==
  /\ [](SessionClosed => readableStreamCancel)
  /\ [][SessionClosed =>
          /\ SessionClosed'
          /\ decodes' = decodes
          /\ dials' = dials
          /\ tcpWritten' = tcpWritten
          /\ wsHeaders' = wsHeaders
          /\ wsChunks' = wsChunks]_vars

\* C15: whatever the order of close, error and abort events on the two legs,
\* the session never calls close() on a TCP connection that is no longer open
\* (a call the platform answers with an exception).
C15_CloseIsIdempotent == ~badClose

\* C16: an accepted WebSocket connection has exactly one relay session: one
\* processWebSocket run with one set of locals, which opens at most one
\* outbound connection.
C16_OneSessionPerConnection ==
  phase = "session" =>
    /\ mainFlow # "notStarted"
    /\ Len(conns) <= 1
    /\ Cardinality(piped) <= 1

BothLegsOpen ==
  /\ wsState = "OPEN"
  /\ remoteConnection # 0
  /\ \A c \in 1..Len(conns) : conns[c] = "open"
  /\ ~writeFailed

\* C18: while both legs are open and nothing is in flight, what was written
\* to the TCP connection is the trailing raw bytes of the first frame (when
\* non-empty) followed by one buffer for every later inbound frame, each an
\* inbound frame as it was received, all on the session's connection.
C18_FramesForwardedInOrder ==
  (BothLegsOpen /\ Quiescent /\ frames >= 1) =>
    LET h == processVlessHeader(firstFrame, sessUserID)
        raw == IF HeaderRejected(h) THEN <<>> ELSE RawClientData(firstFrame, h)
        first == IF raw # <<>> THEN 1 ELSE 0
    IN /\ Len(tcpWritten) = first + (frames - 1)
       /\ raw # <<>> => tcpWritten[1].data = raw
       /\ \A i \in 1..Len(tcpWritten) :
            /\ tcpWritten[i].conn = remoteConnection
            /\ i > first => tcpWritten[i].data \in Frames

\* C19: every send on the WebSocket, of the response header or of a relayed
\* chunk, finds the WebSocket OPEN at the moment of the send; that holds of
\* the send that follows the throttle's delay as well.
C19_SendOnlyWhenOpen ==
  [][/\ (wsChunks' # wsChunks \/ wsHeaders' # wsHeaders) => wsState = "OPEN"
     /\ PipeRemoteSend => wsState = "OPEN"]_vars

\* C20: in the stream-pipe variant, once the session's WebSocket is closing or
\* closed while processWebSocket still awaits remoteConnectionReadyPromise
\* (the header was rejected, the command was UDP, the dial failed, or the
\* WebSocket closed first), the wait eventually ends.
C20_WaitAlwaysEnds ==
  (variant = "pipe" /\ mainFlow = "awaitReady" /\ SessionClosed)
    ~> (mainFlow # "awaitReady")

====
